---- MODULE Spec2Model ----
(***************************************************************************)
(* quadlet-forge: the Container and Pod builders (pod.ts / container.ts)   *)
(* as a state machine.  Every dependency list is a JavaScript array, an    *)
(* object on the heap that a builder reaches through a reference, so two   *)
(* builders made from configs that carry the same array share one list.    *)
(* The registries (registerNetworks, createNetworks, createVolumes) and    *)
(* the single-resource factories (createVolume, createSocket) follow the   *)
(* builders, each with a specification of its own.                         *)
(***************************************************************************)
EXTENDS Integers, Sequences, FiniteSets, TLC

\* ------------------------------------------------------------------ bounds
MaxItems == 3           \* entries held by all dependency lists together
MaxConfigs == 2         \* configs handed to one registry factory call
MaxNames == 2           \* names asked for in one use / attach / getFileTemplates call
MaxPorts == 3           \* ports of one socket config
MaxContexts == 4        \* Context maps made in one run

\* Builder instances, named by the heap address of their closure, in the order
\* they are allocated.
CIdx == {1, 2}          \* containers
PIdx == {3, 4}          \* pods
OnePod == {3}           \* the pods Spec creates
Addrs == CIdx \cup PIdx

\* ------------------------------------------------------------ input values
\* The id a config literal written for an instance carries.
LiteralId(i) == CASE i = 1 -> "caddy" [] i = 2 -> "app" [] i = 3 -> "web" [] i = 4 -> "db"

Image(id) == IF id = "caddy" THEN "docker.io/caddy:latest" ELSE "docker.io/app:1"

\* PodmanNetwork = Resource<"network", PodmanNetworkConfig>
NetworkConfigs ==
  { [id |-> "app", subnet |-> "10.89.0.0/24", gateway |-> "10.89.0.1"],
    [id |-> "db", subnet |-> "10.89.1.0/24", gateway |-> "10.89.1.1"] }

\* The network resources handed to the builders: type, id and config().
Networks == { [type |-> "network", id |-> c.id, config |-> c] : c \in NetworkConfigs }

\* PortMapping
PortMappings ==
  { [external |-> 80, internal |-> 80],
    [external |-> 80, internal |-> 8080],
    [external |-> 443, internal |-> 443] }

\* PodmanVolumeConfig: BindMountConfig | NamedVolumeConfig
VolumeConfigs ==
  { [id |-> "data", type |-> "named", mount_path |-> "/var/lib/data",
     host_path |-> "", permissions |-> ""],
    [id |-> "cfg", type |-> "bind-mount", mount_path |-> "/data",
     host_path |-> "/etc/cfg", permissions |-> "private-readonly"],
    [id |-> "logs", type |-> "bind-mount", mount_path |-> "/data",
     host_path |-> "/var/log/app", permissions |-> "shared-write"],
    [id |-> "cache", type |-> "bind-mount", mount_path |-> "/data",
     host_path |-> "/var/cache/app", permissions |-> "shared-readonly"] }

\* ------------------------------------------------------------------- state
VARIABLES
  containers,   \* container instance -> its closure: config and list references
  pods,         \* pod instance -> its closure: config and list references
  netHeap,      \* address -> PodmanNetwork[]
  portHeap,     \* address -> PortMapping[]
  volHeap,      \* address -> PodmanVolume[]
  contHeap,     \* address -> PodmanContainer[] (container instances)
  last,         \* the call that was made last and how it ended
  opts,         \* the DependencyOptions argument of that call
  registry,     \* the closure of the registry a factory returned
  factoryConfig, \* the config a single-resource factory is called with
  held,         \* the value getDependencies() handed to the caller last
  contexts,     \* the Context maps made so far, in the order they were made
  contextKeys   \* the symbols createContextKey() has handed out

builderVars == <<containers, pods, netHeap, portHeap, volHeap, contHeap>>

\* What the calling code holds on to.
callerVars == <<held, contexts, contextKeys>>

vars == <<builderVars, last, opts, registry, factoryConfig, callerVars>>

\* An array a builder allocates itself (`?? []`) is held at the builder's own
\* address in the heap of its kind.

NULL == [type |-> "null"]       \* the pod back-reference of a container in no pod
Absent == 0                     \* an optional config field that is not given
Undefined == [type |-> "undefined"]     \* an argument the caller leaves out

\* DependencyOptions, the optional second argument of the attach methods
DependencyOptions == {Undefined, [overwrite |-> FALSE], [overwrite |-> TRUE]}

\* --------------------------------------------------------- JavaScript values
\* `if (x)` / `x ? a : b` on an object-or-null value: null is falsy, any
\* object is truthy.
Truthy(v) == v # NULL

\* `${v}` on a plain object: Object.prototype.toString.
ObjectToString(o) == "[object Object]"

\* `${n}` on a number.
NumberToString(n) == ToString(n)

\* Array.prototype.push on the array at address a of a heap.
Push(heap, a, x) == [heap EXCEPT ![a] = Append(@, x)]

\* Array.prototype.filter(Boolean) on strings: the empty string is falsy.
FilterBoolean(s) == SelectSeq(s, LAMBDA l : l # "")

RECURSIVE TrimLeft(_)
TrimLeft(ls) == IF ls # <<>> /\ Head(ls) = "" THEN TrimLeft(Tail(ls)) ELSE ls

RECURSIVE TrimRight(_)
TrimRight(ls) ==
  IF ls # <<>> /\ ls[Len(ls)] = "" THEN TrimRight(SubSeq(ls, 1, Len(ls) - 1)) ELSE ls

\* String.prototype.trim on a text held as its lines (the text split at "\n";
\* no id, image or path of the model holds white space): the empty lines at
\* both ends go.
Trim(ls) == TrimRight(TrimLeft(ls))

\* Array.prototype.join("\n") as lines: the empty array joins to "", one
\* empty line.
JoinLines(ls) == IF ls = <<>> THEN <<"">> ELSE ls

\* ------------------------------------------------------------ model bound
SumLen(heap) == Len(heap[1]) + Len(heap[2]) + Len(heap[3]) + Len(heap[4])

\* Entries held by all arrays together (what MaxItems bounds).
TotalItems ==
  SumLen(netHeap) + SumLen(portHeap) + SumLen(volHeap) + SumLen(contHeap)

Room == TotalItems < MaxItems

\* ------------------------------------------------------------------ volumes
\* buildMountPath(path, permissions)
buildMountPath(path, permissions) ==
  CASE permissions = "private-readonly" -> path \o ":Z,ro,U"
    [] permissions = "private-write" -> path \o ":Z,rw,U"
    [] permissions = "shared-readonly" -> path \o ":z,ro,U"
    [] permissions = "shared-write" -> path \o ":z,rw,U"

\* createVolume(config): the resource's type, id and config() accessor.  A
\* named volume's config has no `permissions` key (held here as "").
createVolume(config) ==
  [ type |-> "volume",
    id |-> config.id,
    config |->
      [ config EXCEPT
          !.host_path = IF config.type = "named" THEN config.id \o ".volume" ELSE @,
          !.mount_path = IF config.permissions # ""
                           THEN buildMountPath(@, config.permissions) ELSE @ ] ]

Volumes == {createVolume(c) : c \in VolumeConfigs}

\* ---------------------------------------------------------------- templates
NetworkLine(n) == "Network=" \o n.config.id \o "." \o n.type
PortLine(p) == "Port=" \o NumberToString(p.external) \o ":" \o NumberToString(p.internal)
VolumeLine(v) == "Volume=" \o v.config.id \o "." \o v.type
\* Array.prototype.map over each dependency array
NetworkLines(networks) == [i \in 1..Len(networks) |-> NetworkLine(networks[i])]
PortLines(ports) == [i \in 1..Len(ports) |-> PortLine(ports[i])]
VolumeLines(volumes) == [i \in 1..Len(volumes) |-> VolumeLine(volumes[i])]
PodLine(pod) == "Pod=" \o ObjectToString(pod) \o "." \o pod.type

\* The dependencies object of a container: its arrays read through the
\* references the closure holds.
ContainerDeps(c) ==
  [ networks |-> netHeap[containers[c].networks],
    pod |-> containers[c].pod,
    ports |-> portHeap[containers[c].ports],
    volumes |-> volHeap[containers[c].volumes] ]

PodDeps(p) ==
  [ networks |-> netHeap[pods[p].networks],
    containers |-> contHeap[pods[p].containers],
    ports |-> portHeap[pods[p].ports],
    volumes |-> volHeap[pods[p].volumes] ]

\* container.ts: template(config, dependencies) with the groups in the order
\* ports, networks, pod, volumes
ContainerTemplatePortsFirst(config, dependencies) ==
  Trim(<<"", "[Container]", "ContainerName=" \o config.id, "Image=" \o config.image>>
    \o JoinLines(FilterBoolean(
         (IF Len(dependencies.ports) > 0
            THEN PortLines(dependencies.ports) ELSE <<>>)
         \o (IF Len(dependencies.networks) > 0
               THEN NetworkLines(dependencies.networks) ELSE <<>>)
         \o (IF Truthy(dependencies.pod) THEN <<PodLine(dependencies.pod)>> ELSE <<>>)
         \o (IF Len(dependencies.volumes) > 0
               THEN VolumeLines(dependencies.volumes) ELSE <<>>))))

\* container.ts: template(config, dependencies), as the lines of its text
ContainerTemplate(config, dependencies) ==
  Trim(<<"", "[Container]", "ContainerName=" \o config.id, "Image=" \o config.image>>
    \o JoinLines(FilterBoolean(
         (IF Len(dependencies.networks) > 0
            THEN NetworkLines(dependencies.networks) ELSE <<>>)
         \o (IF Truthy(dependencies.pod) THEN <<PodLine(dependencies.pod)>> ELSE <<>>)
         \o (IF Len(dependencies.ports) > 0
               THEN PortLines(dependencies.ports) ELSE <<>>)
         \o (IF Len(dependencies.volumes) > 0
               THEN VolumeLines(dependencies.volumes) ELSE <<>>))))

\* pod.ts: template(config, dependencies), as the lines of its text
PodTemplate(config, dependencies) ==
  Trim(<<"", "[Pod]", "PodName=" \o config.id>>
    \o JoinLines(FilterBoolean(
         (IF Len(dependencies.networks) > 0
            THEN NetworkLines(dependencies.networks) ELSE <<>>)
         \o (IF Len(dependencies.ports) > 0
               THEN PortLines(dependencies.ports) ELSE <<>>)
         \o (IF Len(dependencies.volumes) > 0
               THEN VolumeLines(dependencies.volumes) ELSE <<>>))))

\* ---------------------------------------------------------------- errors.ts
Quoted(str) == "\"" \o str \o "\""

\* createError(code, message): the Error's message
createError(code, message) == code \o "\n" \o message

errorContainerDuplicateNetwork(containerId, networkId) ==
  createError("container_duplicate_network",
    "Container " \o Quoted(containerId) \o " is already connected to network "
      \o Quoted(networkId))

errorContainerDuplicatePort(containerId, port) ==
  createError("container_duplicate_port",
    "Container " \o Quoted(containerId) \o " is trying to expose port "
      \o Quoted(NumberToString(port)) \o " multiple times")

errorContainerVolumeMountConflict(containerId, volumeId, target, existingType) ==
  createError("container_volume_mount_conflict",
    "Container " \o Quoted(containerId) \o " - Volume " \o Quoted(volumeId)
      \o " mount at " \o Quoted(target) \o " conflicts with existing "
      \o existingType \o " mount")

errorPodPortInUse(podId, port, containerId) ==
  createError("pod_port_in_use",
    "Pod " \o Quoted(podId) \o " - Port " \o Quoted(NumberToString(port))
      \o " already in use by container " \o Quoted(containerId))

\* errorDuplicateResource(type, id); `capitalized` is what capitalize(type)
\* of internal/text.ts returns.
errorDuplicateResource(type, capitalized, id) ==
  createError("duplicate_" \o type, capitalized \o " " \o Quoted(id) \o " already exists")

errorContainerNetworkInPod(containerId, podId, networkId) ==
  createError("container_network_in_pod",
    "Container " \o Quoted(containerId) \o " can't join network " \o Quoted(networkId)
      \o " - It's part of pod " \o Quoted(podId) \o ". Use pod networking instead")

\* The codes the error constructors of errors.ts give their errors.
ErrorCodes ==
  { "duplicate_container", "duplicate_pod", "duplicate_volume", "duplicate_network",
    "duplicate_socket", "network_duplicate_name", "container_network_in_pod",
    "container_duplicate_network", "container_duplicate_port",
    "container_volume_mount_conflict", "container_port_conflict_in_pod",
    "volume_permission_conflict", "pod_duplicate_port", "pod_port_in_use" }

errorPodDuplicatePort(podId, port) ==
  createError("pod_duplicate_port",
    "Pod " \o Quoted(podId) \o " is already exposing port "
      \o Quoted(NumberToString(port)))

\* ------------------------------------------------------------- call results
Returned(op, self, arg) ==
  [op |-> op, self |-> self, arg |-> arg, threw |-> FALSE, error |-> "", text |-> <<>>]

ReturnedText(op, self, arg, text) ==
  [op |-> op, self |-> self, arg |-> arg, threw |-> FALSE, error |-> "", text |-> text]

\* A call that returns a value other than a text.
ReturnedValue(op, self, arg, result) ==
  [op |-> op, self |-> self, arg |-> arg, threw |-> FALSE, error |-> "",
   result |-> result]

\* throw new Error(message)
Threw(op, self, arg, message) ==
  [op |-> op, self |-> self, arg |-> arg, threw |-> TRUE, error |-> message, text |-> <<>>]

\* --------------------------------------------------------------- construction
NoContainer ==
  [created |-> FALSE, id |-> "", image |-> "", networks |-> Absent, ports |-> Absent,
   volumes |-> Absent, pod |-> NULL]

NoPod ==
  [created |-> FALSE, id |-> "", networks |-> Absent, containers |-> Absent,
   ports |-> Absent, volumes |-> Absent]

Created(insts) == {i \in DOMAIN insts : insts[i].created}

\* `given ?? []`: the given array itself, or a new empty one (at `own`).
OrNewArray(given, own) == IF given = Absent THEN own ELSE given

\* The configs a caller hands to createContainer for instance c: a literal
\* with id and image only, or the config object an earlier container was made
\* from, when that one carries its arrays (`networks: [], ports: [], ...`).
ContainerConfigs(c) ==
  { [id |-> LiteralId(c), networks |-> Absent, ports |-> Absent, volumes |-> Absent] }
    \cup { [ id |-> containers[b].id, networks |-> containers[b].networks,
             ports |-> containers[b].ports, volumes |-> containers[b].volumes ]
           : b \in Created(containers) }

PodConfigs(p) ==
  { [ id |-> LiteralId(p), networks |-> Absent, containers |-> Absent,
      ports |-> Absent, volumes |-> Absent ] }
    \cup { [ id |-> pods[q].id, networks |-> pods[q].networks,
             containers |-> pods[q].containers, ports |-> pods[q].ports,
             volumes |-> pods[q].volumes ]
           : q \in Created(pods) }

\* createContainer(config)
createContainer(c, config) ==
  /\ ~containers[c].created
  /\ \A b \in CIdx : b < c => containers[b].created
  /\ containers' =
       [containers EXCEPT ![c] =
          [ created |-> TRUE,
            id |-> config.id,
            image |-> Image(config.id),
            networks |-> OrNewArray(config.networks, c),
            pod |-> NULL,
            ports |-> OrNewArray(config.ports, c),
            volumes |-> OrNewArray(config.volumes, c) ]]
  /\ last' = Returned("createContainer", c, config)
  /\ UNCHANGED <<pods, netHeap, portHeap, volHeap, contHeap>>

\* createPod(config)
createPod(p, config) ==
  /\ ~pods[p].created
  /\ \A q \in PIdx : q < p => pods[q].created
  /\ pods' =
       [pods EXCEPT ![p] =
          [ created |-> TRUE,
            id |-> config.id,
            networks |-> OrNewArray(config.networks, p),
            containers |-> OrNewArray(config.containers, p),
            ports |-> OrNewArray(config.ports, p),
            volumes |-> OrNewArray(config.volumes, p) ]]
  /\ last' = Returned("createPod", p, config)
  /\ UNCHANGED <<containers, netHeap, portHeap, volHeap, contHeap>>

\* ----------------------------------------------------------------- Container
\* _setPodRef: `if (dependencies.networks.length > 0) throw`
SetPodRefThrows(c) == Len(ContainerDeps(c).networks) > 0

\* addToNetwork: `if (dependencies.pod) throw`
AddToNetworkThrows(c) == Truthy(ContainerDeps(c).pod)

\* A mutant of the generateFileTemplate check: `||` for `&&`.
ContainerGenerateThrowsEither(dependencies) ==
  Len(dependencies.networks) = 0 \/ ~Truthy(dependencies.pod)

\* generateFileTemplate:
\* `if (dependencies.networks.length === 0 && !dependencies.pod) throw`
ContainerGenerateThrows(dependencies) ==
  Len(dependencies.networks) = 0 /\ ~Truthy(dependencies.pod)

\* A mutant of addToNetwork: the push comes before the pod check.
ContainerAddToNetworkPushFirst(c, network) ==
  /\ containers[c].created
  /\ Room
  /\ netHeap' = Push(netHeap, containers[c].networks, network)
  /\ last' = IF AddToNetworkThrows(c)
               THEN Threw("Container.addToNetwork", c, network,
                          "Cannot attach networks to a container in a pod")
               ELSE Returned("Container.addToNetwork", c, network)
  /\ UNCHANGED <<containers, pods, portHeap, volHeap, contHeap>>

\* container.addToNetwork(network)
ContainerAddToNetwork(c, network) ==
  /\ containers[c].created
  /\ IF AddToNetworkThrows(c)
       THEN /\ last' = Threw("Container.addToNetwork", c, network,
                             "Cannot attach networks to a container in a pod")
            /\ UNCHANGED <<containers, pods, netHeap, portHeap, volHeap, contHeap>>
       ELSE /\ Room
            /\ netHeap' = Push(netHeap, containers[c].networks, network)
            /\ last' = Returned("Container.addToNetwork", c, network)
            /\ UNCHANGED <<containers, pods, portHeap, volHeap, contHeap>>

\* container.exposePort(port)
ContainerExposePort(c, port) ==
  /\ containers[c].created
  /\ Room
  /\ portHeap' = Push(portHeap, containers[c].ports, port)
  /\ last' = Returned("Container.exposePort", c, port)
  /\ UNCHANGED <<containers, pods, netHeap, volHeap, contHeap>>

\* container.addVolume(volume)
ContainerAddVolume(c, volume) ==
  /\ containers[c].created
  /\ Room
  /\ volHeap' = Push(volHeap, containers[c].volumes, volume)
  /\ last' = Returned("Container.addVolume", c, volume)
  /\ UNCHANGED <<containers, pods, netHeap, portHeap, contHeap>>

\* container.generateFileTemplate() that hands its ports over to the text and
\* empties the list
ContainerGenerateFileTemplateDrainsPorts(c) ==
  /\ containers[c].created
  /\ last' =
       IF ContainerGenerateThrows(ContainerDeps(c))
         THEN Threw("Container.generateFileTemplate", c, <<>>,
                    "Container " \o containers[c].id
                      \o " must have either networks or pod attached")
         ELSE ReturnedText("Container.generateFileTemplate", c, <<>>,
                           ContainerTemplate(containers[c], ContainerDeps(c)))
  /\ portHeap' = [portHeap EXCEPT ![containers[c].ports] = <<>>]
  /\ UNCHANGED <<containers, pods, netHeap, volHeap, contHeap>>

\* container.generateFileTemplate()
ContainerGenerateFileTemplate(c) ==
  /\ containers[c].created
  /\ last' =
       IF ContainerGenerateThrows(ContainerDeps(c))
         THEN Threw("Container.generateFileTemplate", c, <<>>,
                    "Container " \o containers[c].id
                      \o " must have either networks or pod attached")
         ELSE ReturnedText("Container.generateFileTemplate", c, <<>>,
                           ContainerTemplate(containers[c], ContainerDeps(c)))
  /\ UNCHANGED <<containers, pods, netHeap, portHeap, volHeap, contHeap>>

\* ----------------------------------------------------------------------- Pod
\* pod.addToNetwork(network)
PodAddToNetwork(p, network) ==
  /\ pods[p].created
  /\ Room
  /\ netHeap' = Push(netHeap, pods[p].networks, network)
  /\ last' = Returned("Pod.addToNetwork", p, network)
  /\ UNCHANGED <<containers, pods, portHeap, volHeap, contHeap>>

\* pod.addContainer(container): the push, then container._setPodRef({id, type}),
\* whose throw leaves the pushed entry in place.
PodAddContainer(p, c) ==
  /\ pods[p].created
  /\ containers[c].created
  /\ Room
  /\ contHeap' = Push(contHeap, pods[p].containers, c)
  /\ IF SetPodRefThrows(c)
       THEN /\ last' = Threw("Pod.addContainer", p, c,
                             "Cannot attach pod to a container with networks")
            /\ UNCHANGED containers
       ELSE /\ containers' =
                 [containers EXCEPT ![c].pod = [id |-> pods[p].id, type |-> "pod"]]
            /\ last' = Returned("Pod.addContainer", p, c)
  /\ UNCHANGED <<pods, netHeap, portHeap, volHeap>>

\* pod.exposePort(port)
PodExposePort(p, port) ==
  /\ pods[p].created
  /\ Room
  /\ portHeap' = Push(portHeap, pods[p].ports, port)
  /\ last' = Returned("Pod.exposePort", p, port)
  /\ UNCHANGED <<containers, pods, netHeap, volHeap, contHeap>>

\* pod.addVolume(volume)
PodAddVolume(p, volume) ==
  /\ pods[p].created
  /\ Room
  /\ volHeap' = Push(volHeap, pods[p].volumes, volume)
  /\ last' = Returned("Pod.addVolume", p, volume)
  /\ UNCHANGED <<containers, pods, netHeap, portHeap, contHeap>>

\* generateFileTemplate:
\* `if (networks.length === 0 && containers.length === 0) throw`
PodGenerateThrows(dependencies) ==
  Len(dependencies.networks) = 0 /\ Len(dependencies.containers) = 0

\* pod.generateFileTemplate()
PodGenerateFileTemplate(p) ==
  /\ pods[p].created
  /\ last' =
       IF PodGenerateThrows(PodDeps(p))
         THEN Threw("Pod.generateFileTemplate", p, <<>>,
                    "Pod " \o pods[p].id
                      \o " must have at least 1 network and 1 container attached")
         ELSE ReturnedText("Pod.generateFileTemplate", p, <<>>,
                           PodTemplate(pods[p], PodDeps(p)))
  /\ UNCHANGED <<containers, pods, netHeap, portHeap, volHeap, contHeap>>

\* ------------------------------------------------------------- specification
\* No registry has been made.
NoRegistry == [factory |-> "none"]

\* No single-resource factory is in use.
NoConfig == [id |-> ""]

\* No builder and no registry has been made, no call has been made.
\* The caller holds no dependencies object.
NoHeld == [builder |-> "none", self |-> 0]

NothingBuilt ==
  /\ registry = NoRegistry
  /\ containers = [c \in CIdx |-> NoContainer]
  /\ pods = [p \in PIdx |-> NoPod]
  /\ netHeap = [a \in Addrs |-> <<>>]
  /\ portHeap = [a \in Addrs |-> <<>>]
  /\ volHeap = [a \in Addrs |-> <<>>]
  /\ contHeap = [a \in Addrs |-> <<>>]
  /\ last = Returned("init", 0, <<>>)
  /\ opts = Undefined
  /\ held = NoHeld
  /\ contexts = <<>>
  /\ contextKeys = {}

Init == NothingBuilt /\ factoryConfig = NoConfig

\* A builder call that passes no DependencyOptions; the builders reach no
\* registry.
NoOptions == opts' = Undefined /\ UNCHANGED <<registry, factoryConfig, callerVars>>

Next ==
  \/ \E c \in CIdx : \E config \in ContainerConfigs(c) : createContainer(c, config) /\ NoOptions
  \/ \E p \in OnePod : \E config \in PodConfigs(p) : createPod(p, config) /\ NoOptions
  \/ \E c \in CIdx, network \in Networks : ContainerAddToNetwork(c, network) /\ NoOptions
  \/ \E c \in CIdx, port \in PortMappings : ContainerExposePort(c, port) /\ NoOptions
  \/ \E c \in CIdx, volume \in Volumes : ContainerAddVolume(c, volume) /\ NoOptions
  \/ \E c \in CIdx : ContainerGenerateFileTemplate(c) /\ NoOptions
  \/ \E p \in OnePod, network \in Networks : PodAddToNetwork(p, network) /\ NoOptions
  \/ \E p \in OnePod, c \in CIdx : PodAddContainer(p, c) /\ NoOptions
  \/ \E p \in OnePod, port \in PortMappings : PodExposePort(p, port) /\ NoOptions
  \/ \E p \in OnePod, volume \in Volumes : PodAddVolume(p, volume) /\ NoOptions
  \/ \E p \in OnePod : PodGenerateFileTemplate(p) /\ NoOptions

Spec == Init /\ [][Next]_vars

\* ------------------------------------------- attach calls with options
\* The attach methods are declared with `opts?: DependencyOptions`; the
\* implementations take one parameter, so a second argument is dropped.
WithOptions ==
  opts' \in DependencyOptions /\ UNCHANGED <<registry, factoryConfig, callerVars>>

NextOptions ==
  \/ \E c \in CIdx : \E config \in ContainerConfigs(c) : createContainer(c, config) /\ NoOptions
  \/ \E p \in OnePod : \E config \in PodConfigs(p) : createPod(p, config) /\ NoOptions
  \/ \E c \in CIdx, network \in Networks : ContainerAddToNetwork(c, network) /\ WithOptions
  \/ \E c \in CIdx, port \in PortMappings : ContainerExposePort(c, port) /\ WithOptions
  \/ \E c \in CIdx, volume \in Volumes : ContainerAddVolume(c, volume) /\ WithOptions
  \/ \E p \in OnePod, network \in Networks : PodAddToNetwork(p, network) /\ WithOptions
  \/ \E p \in OnePod, c \in CIdx : PodAddContainer(p, c) /\ WithOptions
  \/ \E p \in OnePod, port \in PortMappings : PodExposePort(p, port) /\ WithOptions
  \/ \E p \in OnePod, volume \in Volumes : PodAddVolume(p, volume) /\ WithOptions

SpecOptions == Init /\ [][NextOptions]_vars

\* ------------------------------------------------ getDependencies()
\* container.getDependencies(): `return dependencies`, the object of the
\* closure itself; the caller holds a reference to it.
ContainerGetDependencies(c) ==
  /\ containers[c].created
  /\ held' = [builder |-> "container", self |-> c]
  /\ last' = ReturnedValue("Container.getDependencies", c, <<>>, ContainerDeps(c))
  /\ UNCHANGED <<builderVars, opts, registry, factoryConfig, contexts, contextKeys>>

\* pod.getDependencies(): `return dependencies`
PodGetDependencies(p) ==
  /\ pods[p].created
  /\ held' = [builder |-> "pod", self |-> p]
  /\ last' = ReturnedValue("Pod.getDependencies", p, <<>>, PodDeps(p))
  /\ UNCHANGED <<builderVars, opts, registry, factoryConfig, contexts, contextKeys>>

\* What the caller reads through the reference it holds: the properties of
\* the builder's dependencies object as they are now.
HeldValue ==
  CASE held.builder = "container" -> ContainerDeps(held.self)
    [] held.builder = "pod" -> PodDeps(held.self)
    [] OTHER -> Undefined

\* The networks array of the object the caller holds.
HeldNetworks ==
  IF held.builder = "container" THEN containers[held.self].networks
                                ELSE pods[held.self].networks

\* The caller changes the value it was handed: `deps.networks.push(network)`.
DependenciesPushNetwork(network) ==
  /\ held # NoHeld
  /\ Room
  /\ netHeap' = Push(netHeap, HeldNetworks, network)
  /\ last' = Returned("dependencies.networks.push", held.self, network)
  /\ UNCHANGED <<containers, pods, portHeap, volHeap, contHeap, opts, registry,
                 factoryConfig, callerVars>>

NextDependencies ==
  \/ \E c \in CIdx : \E config \in ContainerConfigs(c) : createContainer(c, config) /\ NoOptions
  \/ \E p \in OnePod : \E config \in PodConfigs(p) : createPod(p, config) /\ NoOptions
  \/ \E c \in CIdx, network \in Networks : ContainerAddToNetwork(c, network) /\ NoOptions
  \/ \E c \in CIdx, port \in PortMappings : ContainerExposePort(c, port) /\ NoOptions
  \/ \E p \in OnePod, network \in Networks : PodAddToNetwork(p, network) /\ NoOptions
  \/ \E p \in OnePod, c \in CIdx : PodAddContainer(p, c) /\ NoOptions
  \/ \E c \in CIdx : ContainerGetDependencies(c)
  \/ \E p \in OnePod : PodGetDependencies(p)
  \/ \E network \in Networks : DependenciesPushNetwork(network)

SpecDependencies == Init /\ [][NextDependencies]_vars

\* ------------------------------------------------ containers and two pods
\* createContainer, createPod and pod.addContainer alone, over both pods.
NextPods ==
  \/ \E c \in CIdx : \E config \in ContainerConfigs(c) : createContainer(c, config) /\ NoOptions
  \/ \E p \in PIdx : \E config \in PodConfigs(p) : createPod(p, config) /\ NoOptions
  \/ \E p \in PIdx, c \in CIdx : PodAddContainer(p, c) /\ NoOptions

SpecPods == Init /\ [][NextPods]_vars

\* ===================================================================== claims
\* ---------------------------------------------------------------- registries
\* The lists of at most n elements of S.
SeqsUpTo(S, n) == UNION { [1..k -> S] : k \in 0..n }

\* PodmanNetworkConfig lists a caller can hand to registerNetworks: the type
\* UniqueObjectKeyArray<T, "id"> is erased at run time, so two configs of a
\* list may carry one id.
RegisteredNetworkConfigs ==
  NetworkConfigs
    \cup { [id |-> "app", subnet |-> "10.89.2.0/24", gateway |-> "10.89.2.1"] }

\* The names a caller asks a network registry for ("web" is never registered).
NetworkNames == {"app", "db", "web"}

\* shared/constants.ts
PODMAN_PATHS ==
  [quadlet |-> ".config/containers/systemd", systemd |-> ".config/systemd/user"]

\* network.ts / networks.ts: template(name, config), as the lines of its text
NetworkTemplate(name, config) ==
  Trim(<< "",
          "[Network]",
          "NetworkName=" \o name,
          "Driver=bridge",
          "Subnet=" \o config.subnet,
          "Gateway=" \o config.gateway,
          "",
          "[Install]",
          "WantedBy=default.target",
          "" >>)

\* A Map, or the own properties of an object, as its [key, value] entries in
\* insertion order.
HasKey(map, key) == \E i \in DOMAIN map : map[i].key = key

\* Map.prototype.set: a key that is there keeps its place and changes its value.
MapSet(map, key, value) ==
  IF HasKey(map, key)
    THEN [ i \in DOMAIN map |->
             IF map[i].key = key THEN [key |-> key, value |-> value] ELSE map[i] ]
    ELSE Append(map, [key |-> key, value |-> value])

\* Map.prototype.get, and `object[key]` on own properties.
MapGet(map, key) ==
  IF HasKey(map, key)
    THEN map[CHOOSE i \in DOMAIN map : map[i].key = key].value
    ELSE Undefined

\* createNetwork(config): type, id and config of the resource
createNetwork(config) == [type |-> "network", id |-> config.id, config |-> config]

\* networks.forEach((network) => networkMap.set(network.id, createNetwork(network)))
RECURSIVE SetNetworks(_, _)
SetNetworks(networkMap, networks) ==
  IF networks = <<>>
    THEN networkMap
    ELSE SetNetworks(
           MapSet(networkMap, Head(networks).id, createNetwork(Head(networks))),
           Tail(networks))

\* registerNetworks(networks)
registerNetworks(networks) ==
  LET networkMap == SetNetworks(<<>>, networks)
  IN /\ registry = NoRegistry
     /\ registry' = [factory |-> "registerNetworks", networks |-> networks,
                     networkMap |-> networkMap]
     /\ last' = ReturnedValue("registerNetworks", 0, networks, networkMap)
     /\ UNCHANGED <<builderVars, callerVars, opts, factoryConfig>>

\* registerNetworks(...).use(names), answering in registration order
RegisterNetworksUseMapOrder(names) ==
  /\ registry.factory = "registerNetworks"
  /\ LET asked == SelectSeq(registry.networkMap,
                            LAMBDA e : \E i \in DOMAIN names : names[i] = e.key)
     IN last' = ReturnedValue("registerNetworks.use", 0, names,
                              [i \in DOMAIN asked |-> asked[i].value])
  /\ UNCHANGED <<builderVars, callerVars, opts, registry, factoryConfig>>

\* registerNetworks(...).use(names)
RegisterNetworksUse(names) ==
  /\ registry.factory = "registerNetworks"
  /\ last' = ReturnedValue("registerNetworks.use", 0, names,
                           [i \in DOMAIN names |-> MapGet(registry.networkMap, names[i])])
  /\ UNCHANGED <<builderVars, callerVars, opts, registry, factoryConfig>>

\* Array.prototype.includes
Includes(list, x) == \E i \in DOMAIN list : list[i] = x

\* Array.prototype.join(separator) on strings
RECURSIVE Join(_, _)
Join(list, separator) ==
  IF list = <<>> THEN ""
  ELSE IF Len(list) = 1 THEN list[1]
  ELSE list[1] \o separator \o Join(Tail(list), separator)

\* The strings without "." that the names and file names of the registries are
\* made of.
Segments == {"app", "db", "v2", "data", "cfg", "network", "volume"}

\* String.prototype.split("."): the parts such that joining them with "."
\* gives the string back.
Dotted == UNION { [1..k -> Segments] : k \in 1..3 }

SplitTable ==
  [ str \in { Join(parts, ".") : parts \in Dotted } |->
      CHOOSE parts \in Dotted : Join(parts, ".") = str ]

SplitDot(str) == SplitTable[str]

\* network.ts (first draft): PodmanNetworkConfig carries `name`.
NamedNetworkConfigs ==
  { [name |-> c.id, subnet |-> c.subnet, gateway |-> c.gateway]
      : c \in RegisteredNetworkConfigs }
    \cup { [name |-> "app.v2", subnet |-> "10.89.3.0/24", gateway |-> "10.89.3.1"] }

\* createNetworks(networks) of network.ts, writing to the systemd unit directory
createNetworksSystemdDir(networks) ==
  LET templates ==
        [ i \in DOMAIN networks |->
            [ file_name |-> networks[i].name \o ".network",
              output_dir_local |-> PODMAN_PATHS.systemd,
              contents |-> NetworkTemplate(networks[i].name, networks[i]) ] ]
  IN /\ registry = NoRegistry
     /\ registry' = [factory |-> "createNetworks", networks |-> networks,
                     templates |-> templates]
     /\ last' = ReturnedValue("createNetworks", 0, networks, templates)
     /\ UNCHANGED <<builderVars, callerVars, opts, factoryConfig>>

\* createNetworks(networks) of network.ts
createNetworks(networks) ==
  LET templates ==
        [ i \in DOMAIN networks |->
            [ file_name |-> networks[i].name \o ".network",
              output_dir_local |-> PODMAN_PATHS.quadlet,
              contents |-> NetworkTemplate(networks[i].name, networks[i]) ] ]
  IN /\ registry = NoRegistry
     /\ registry' = [factory |-> "createNetworks", networks |-> networks,
                     templates |-> templates]
     /\ last' = ReturnedValue("createNetworks", 0, networks, templates)
     /\ UNCHANGED <<builderVars, callerVars, opts, factoryConfig>>

\* createNetworks(...).use(names): `(names) => names`
CreateNetworksUse(names) ==
  /\ registry.factory = "createNetworks"
  /\ last' = ReturnedValue("createNetworks.use", 0, names, names)
  /\ UNCHANGED <<builderVars, callerVars, opts, registry, factoryConfig>>

\* createNetworks(...).getFileTemplates(names)
CreateNetworksGetFileTemplates(names) ==
  /\ registry.factory = "createNetworks"
  /\ last' = ReturnedValue("createNetworks.getFileTemplates", 0, names,
               SelectSeq(registry.templates,
                         LAMBDA t : Includes(names, SplitDot(t.file_name)[1])))
  /\ UNCHANGED <<builderVars, callerVars, opts, registry, factoryConfig>>

\* networks.ts: PodmanNetworkRegistry, an object keyed by network name; the
\* keys of an object are distinct.
NetworkRegistries ==
  { networks \in SeqsUpTo({ [key |-> c.id, value |-> [subnet |-> c.subnet,
                                                       gateway |-> c.gateway]]
                              : c \in RegisteredNetworkConfigs }, MaxConfigs) :
      \A i, j \in DOMAIN networks : networks[i].key = networks[j].key => i = j }

\* createNetworks(networks) of networks.ts: Object.entries, map, Object.fromEntries
createNetworkTemplates(networks) ==
  LET templates ==
        [ i \in DOMAIN networks |->
            [ key |-> networks[i].key,
              value |-> [ file_name |-> networks[i].key \o ".network",
                          output_dir_local |-> PODMAN_PATHS.quadlet,
                          contents |-> NetworkTemplate(networks[i].key,
                                                       networks[i].value) ] ] ]
  IN /\ registry = NoRegistry
     /\ registry' = [factory |-> "networks.createNetworks", networks |-> networks,
                     templates |-> templates]
     /\ last' = ReturnedValue("networks.createNetworks", 0, networks, templates)
     /\ UNCHANGED <<builderVars, callerVars, opts, factoryConfig>>

\* createNetworks(...).attach(...names) of networks.ts: the map throws at the
\* first name that has no template.
NetworksAttach(names) ==
  /\ registry.factory = "networks.createNetworks"
  /\ LET missing == { i \in DOMAIN names : ~HasKey(registry.templates, names[i]) }
         first == CHOOSE i \in missing : \A j \in missing : i <= j
     IN last' = IF missing # {}
                  THEN Threw("networks.attach", 0, names,
                             "Network " \o names[first] \o " not found")
                  ELSE ReturnedValue("networks.attach", 0, names,
                         [i \in DOMAIN names |-> MapGet(registry.templates, names[i])])
  /\ UNCHANGED <<builderVars, callerVars, opts, registry, factoryConfig>>

\* volume.ts: PodmanVolumeConfig = {name, mount_path, host_path?, selinux_label?};
\* an optional property that is not given is no field of the record.  Two
\* configs carry the name "data", one name holds a ".".
RegisteredVolumeConfigs ==
  { [name |-> "data", mount_path |-> "/var/lib/data"],
    [name |-> "db.data", mount_path |-> "/var/lib/db", selinux_label |-> "Z"],
    [name |-> "cfg", mount_path |-> "/etc/app", host_path |-> "/home/u/cfg",
     selinux_label |-> "z"],
    [name |-> "data", mount_path |-> "/data", host_path |-> "/srv/data"] }

\* The names a caller asks a volume registry for ("db" is never registered).
VolumeNames == {"data", "db.data", "cfg", "db"}

\* `config[field]` as a condition: an absent property is undefined, and
\* undefined and "" are falsy.
TruthyField(config, field) == field \in DOMAIN config /\ config[field] # ""

\* buildHostPath(config): `config.host_path ?? `${config.name}.volume``
buildHostPath(config) ==
  IF "host_path" \in DOMAIN config THEN config.host_path
                                   ELSE config.name \o ".volume"

\* buildMountPath(config) of volume.ts
buildLabelledMountPath(config) ==
  IF TruthyField(config, "selinux_label")
    THEN config.mount_path \o ":" \o config.selinux_label
    ELSE config.mount_path

\* volumes.find((v) => v.name === name): the first config of that name
FindVolume(volumes, name) ==
  volumes[CHOOSE i \in DOMAIN volumes :
            /\ volumes[i].name = name
            /\ \A j \in DOMAIN volumes : volumes[j].name = name => i <= j]

\* createVolumes(volumes): templates for the podman-managed volumes only
createVolumes(volumes) ==
  LET managed == SelectSeq(volumes, LAMBDA config : ~TruthyField(config, "host_path"))
      templates ==
        [ i \in DOMAIN managed |->
            [ file_name |-> managed[i].name \o ".volume",
              output_dir_local |-> PODMAN_PATHS.quadlet,
              contents |-> <<"[Volume]">> ] ]
  IN /\ registry = NoRegistry
     /\ registry' = [factory |-> "createVolumes", volumes |-> volumes,
                     templates |-> templates]
     /\ last' = ReturnedValue("createVolumes", 0, volumes, templates)
     /\ UNCHANGED <<builderVars, callerVars, opts, factoryConfig>>

\* createVolumes(...).use(names)
VolumesUse(names) ==
  /\ registry.factory = "createVolumes"
  /\ LET volumes == registry.volumes
         validNames ==
           \A i \in DOMAIN names : \E j \in DOMAIN volumes : volumes[j].name = names[i]
     IN last' = IF ~validNames
                  THEN Threw("createVolumes.use", 0, names,
                             "Invalid volume names: " \o Join(names, ", "))
                  ELSE ReturnedValue("createVolumes.use", 0, names,
                         [ i \in DOMAIN names |->
                             [ host_path |-> buildHostPath(FindVolume(volumes, names[i])),
                               mount_path |->
                                 buildLabelledMountPath(FindVolume(volumes, names[i])) ] ])
  /\ UNCHANGED <<builderVars, callerVars, opts, registry, factoryConfig>>

\* createVolumes(...).getFileTemplates(names)
VolumesGetFileTemplates(names) ==
  /\ registry.factory = "createVolumes"
  /\ LET volumes == registry.volumes
         bindMounts ==
           SelectSeq(names,
             LAMBDA name : \E j \in DOMAIN volumes :
                             /\ volumes[j].name = name
                             /\ TruthyField(volumes[j], "host_path"))
     IN last' = IF Len(bindMounts) > 0
                  THEN Threw("createVolumes.getFileTemplates", 0, names,
                             "Cannot get quadlet templates for bind mounts: ["
                               \o Join(bindMounts, ",")
                               \o "]. Only podman-managed volumes generate template files.")
                  ELSE ReturnedValue("createVolumes.getFileTemplates", 0, names,
                         SelectSeq(registry.templates,
                           LAMBDA t : Includes(names, SplitDot(t.file_name)[1])))
  /\ UNCHANGED <<builderVars, callerVars, opts, registry, factoryConfig>>

\* The registries: one factory call makes the registry, the calls that follow
\* go to it.
NextRegistry ==
  \/ \E networks \in SeqsUpTo(RegisteredNetworkConfigs, MaxConfigs) :
       registerNetworks(networks)
  \/ \E names \in SeqsUpTo(NetworkNames, MaxNames) : RegisterNetworksUse(names)
  \/ \E networks \in SeqsUpTo(NamedNetworkConfigs, MaxConfigs) : createNetworks(networks)
  \/ \E names \in SeqsUpTo(NetworkNames \cup {"app.v2"}, MaxNames) :
       CreateNetworksUse(names)
  \/ \E names \in SeqsUpTo(NetworkNames \cup {"app.v2"}, MaxNames) :
       CreateNetworksGetFileTemplates(names)
  \/ \E networks \in NetworkRegistries : createNetworkTemplates(networks)
  \/ \E names \in SeqsUpTo(NetworkNames, MaxNames) : NetworksAttach(names)
  \/ \E volumes \in SeqsUpTo(RegisteredVolumeConfigs, MaxConfigs) : createVolumes(volumes)
  \/ \E names \in SeqsUpTo(VolumeNames, MaxNames) : VolumesUse(names)
  \/ \E names \in SeqsUpTo(VolumeNames, MaxNames) : VolumesGetFileTemplates(names)

SpecRegistry == Init /\ [][NextRegistry]_vars

\* ------------------------------------------- single-resource factories
\* volume.ts (createVolume draft): template(id), as the lines of its text
VolumeTemplate(id) == Trim(<<"", "[Volume]", "">>)

\* SocketConfig: id, activate_service, ports (number[], which may be empty)
SocketConfigs ==
  { [id |-> "proxy", activate_service |-> s, ports |-> ports]
      : s \in {"caddy", "app"}, ports \in SeqsUpTo({80, 443, 8080}, MaxPorts) }

\* `${array}` in a template literal: Array.prototype.toString, the elements
\* joined with ",".
ArrayToString(list) == Join(list, ",")

\* socket.ts: template(config), as the lines of its text
SocketTemplate(config) ==
  Trim(<< "",
          "[Socket]",
          ArrayToString([ i \in DOMAIN config.ports |->
                            "ListenStream=[::]" \o NumberToString(config.ports[i]) ]),
          "# Allows IPv4 and IPv6 connections",
          "BindIPv6Only=both",
          "# This triggers the service immediately when socket is activated",
          "Service=" \o config.activate_service,
          "",
          "[Install]",
          "WantedBy=socket.target",
          "" >>)

\* createSocket(config): type, id and config() of the resource
createSocket(config) == [type |-> "socket", id |-> config.id, config |-> config]

\* The config a factory is called with is a volume config / a socket config.
IsVolumeConfig(config) == "mount_path" \in DOMAIN config
IsSocketConfig(config) == "ports" \in DOMAIN config

\* createVolume(config)
CreateVolume ==
  /\ IsVolumeConfig(factoryConfig)
  /\ last' = ReturnedValue("createVolume", 0, factoryConfig, createVolume(factoryConfig))
  /\ UNCHANGED <<builderVars, callerVars, opts, registry, factoryConfig>>

\* createVolume(config).config()
VolumeConfig ==
  /\ IsVolumeConfig(factoryConfig)
  /\ last' = ReturnedValue("Volume.config", 0, factoryConfig,
                           createVolume(factoryConfig).config)
  /\ UNCHANGED <<builderVars, callerVars, opts, registry, factoryConfig>>

\* createVolume(config).generateFileTemplate(), with a template for every type
VolumeGenerateFileTemplateAnyType ==
  /\ IsVolumeConfig(factoryConfig)
  /\ last' = ReturnedText("Volume.generateFileTemplate", 0, factoryConfig,
                          VolumeTemplate(factoryConfig.id))
  /\ UNCHANGED <<builderVars, callerVars, opts, registry, factoryConfig>>

\* createVolume(config).generateFileTemplate(); the text "" is one empty line
VolumeGenerateFileTemplate ==
  /\ IsVolumeConfig(factoryConfig)
  /\ last' = ReturnedText("Volume.generateFileTemplate", 0, factoryConfig,
                          IF factoryConfig.type = "named"
                            THEN VolumeTemplate(factoryConfig.id)
                            ELSE <<"">>)
  /\ UNCHANGED <<builderVars, callerVars, opts, registry, factoryConfig>>

\* createSocket(config)
CreateSocket ==
  /\ IsSocketConfig(factoryConfig)
  /\ last' = ReturnedValue("createSocket", 0, factoryConfig, createSocket(factoryConfig))
  /\ UNCHANGED <<builderVars, callerVars, opts, registry, factoryConfig>>

\* createSocket(config).config()
SocketConfig ==
  /\ IsSocketConfig(factoryConfig)
  /\ last' = ReturnedValue("Socket.config", 0, factoryConfig,
                           createSocket(factoryConfig).config)
  /\ UNCHANGED <<builderVars, callerVars, opts, registry, factoryConfig>>

\* createSocket(config).generateFileTemplate()
SocketGenerateFileTemplate ==
  /\ IsSocketConfig(factoryConfig)
  /\ last' = ReturnedText("Socket.generateFileTemplate", 0, factoryConfig,
                          SocketTemplate(factoryConfig))
  /\ UNCHANGED <<builderVars, callerVars, opts, registry, factoryConfig>>

\* The factory is handed one config, a volume's or a socket's.
InitFactory == NothingBuilt /\ factoryConfig \in VolumeConfigs \cup SocketConfigs

NextFactory ==
  \/ CreateVolume
  \/ VolumeConfig
  \/ VolumeGenerateFileTemplate
  \/ CreateSocket
  \/ SocketConfig
  \/ SocketGenerateFileTemplate

SpecFactory == InitFactory /\ [][NextFactory]_vars

\* ------------------------------------------------------------------ context.ts
\* The symbols Symbol() can hand out, named after the keys they are used as.
Symbols == {"POD_CTX", "NETWORK_CTX"}

\* The values the callers store in a context.
ContextValues ==
  { [type |-> "pod", id |-> "web"], [type |-> "pod", id |-> "db"] }

\* new Map(iterable): the entries are set one after the other.
RECURSIVE SetEntries(_, _)
SetEntries(map, entries) ==
  IF entries = <<>>
    THEN map
    ELSE SetEntries(MapSet(map, Head(entries).key, Head(entries).value), Tail(entries))

NewMap(entries) == SetEntries(<<>>, entries)

\* createContext(): `return new Map()`; the result is the reference to it.
CreateContext ==
  /\ Len(contexts) < MaxContexts
  /\ contexts' = Append(contexts, NewMap(<<>>))
  /\ last' = ReturnedValue("createContext", 0, <<>>, Len(contexts) + 1)
  /\ UNCHANGED <<builderVars, opts, registry, factoryConfig, held, contextKeys>>

\* createContextKey(): `return Symbol()`, a symbol no earlier call returned.
CreateContextKey ==
  /\ \E symbol \in Symbols \ contextKeys :
       /\ contextKeys' = contextKeys \cup {symbol}
       /\ last' = ReturnedValue("createContextKey", 0, <<>>, symbol)
  /\ UNCHANGED <<builderVars, opts, registry, factoryConfig, held, contexts>>

\* withContext(context, key, value) that sets the key in the map it is given
\* and returns that map
WithContextInPlace(context, key, value) ==
  /\ Len(contexts) < MaxContexts
  /\ contexts' = [contexts EXCEPT ![context] = MapSet(contexts[context], key, value)]
  /\ last' = ReturnedValue("withContext", 0,
                           [context |-> context, key |-> key, value |-> value],
                           context)
  /\ UNCHANGED <<builderVars, opts, registry, factoryConfig, held, contextKeys>>

\* withContext(context, key, value): a new Map of the entries of context, the
\* key set in it
WithContext(context, key, value) ==
  /\ Len(contexts) < MaxContexts
  /\ contexts' = Append(contexts, MapSet(NewMap(contexts[context]), key, value))
  /\ last' = ReturnedValue("withContext", 0,
                           [context |-> context, key |-> key, value |-> value],
                           Len(contexts) + 1)
  /\ UNCHANGED <<builderVars, opts, registry, factoryConfig, held, contextKeys>>

\* getContext(context, key): `context.get(key)`
GetContext(context, key) ==
  /\ last' = ReturnedValue("getContext", 0, [context |-> context, key |-> key],
                           MapGet(contexts[context], key))
  /\ UNCHANGED <<builderVars, opts, registry, factoryConfig, callerVars>>

NextContext ==
  \/ CreateContext
  \/ CreateContextKey
  \/ \E context \in DOMAIN contexts, key \in contextKeys, value \in ContextValues :
       WithContext(context, key, value)
  \/ \E context \in DOMAIN contexts, key \in contextKeys : GetContext(context, key)

SpecContext == Init /\ [][NextContext]_vars

\* C1: no container has both a non-empty networks list and a non-null pod
\* back-reference, in any state the builder calls reach.
C1_NetworksXorPod ==
  \A c \in Created(containers) :
    ~(Len(ContainerDeps(c).networks) > 0 /\ ContainerDeps(c).pod # NULL)

\* C2: pod.addContainer(c) on a container whose networks list is non-empty
\* fails and leaves the pod's containers list and c's pod back-reference as
\* they were.
C2_AddContainerRejectedUnchanged ==
  [][ \A p \in PIdx, c \in CIdx :
        ( /\ last'.op = "Pod.addContainer"
          /\ last'.self = p
          /\ last'.arg = c
          /\ Len(ContainerDeps(c).networks) > 0 )
        => /\ last'.threw
           /\ contHeap'[pods[p].containers] = contHeap[pods[p].containers]
           /\ containers'[c].pod = containers[c].pod ]_vars

\* C3: container.addToNetwork(n) on a container whose pod back-reference is
\* set fails and leaves the container's networks, ports, volumes and pod
\* back-reference unchanged.
C3_AddToNetworkInPodRejected ==
  [][ \A c \in CIdx :
        ( /\ last'.op = "Container.addToNetwork"
          /\ last'.self = c
          /\ containers[c].pod # NULL )
        => /\ last'.threw
           /\ containers'[c] = containers[c]
           /\ netHeap'[containers[c].networks] = netHeap[containers[c].networks]
           /\ portHeap'[containers[c].ports] = portHeap[containers[c].ports]
           /\ volHeap'[containers[c].volumes] = volHeap[containers[c].volumes] ]_vars

\* A rejected addToNetwork has happened on a container that is in a pod.
C3_Witness ==
  /\ last.op = "Container.addToNetwork"
  /\ last.threw
  /\ containers[last.self].pod # NULL

\* C4: pod.generateFileTemplate() succeeds only when the pod has at least one
\* network and at least one container attached.
C4_PodGenerateNeedsNetworkAndContainer ==
  (last.op = "Pod.generateFileTemplate" /\ ~last.threw)
    => /\ Len(PodDeps(last.self).networks) >= 1
       /\ Len(PodDeps(last.self).containers) >= 1

\* The lines of a rendered text that start with `Network=`: every rendered
\* line is a key, `=`, and a value built from ids, types and port numbers.
NetworkPrefixed ==
  { "Network=" \o id \o "." \o type :
      id \in {n.id : n \in Networks} \cup {LiteralId(i) : i \in Addrs}
               \cup {v.id : v \in Volumes} \cup {"[object Object]"},
      type \in {"network", "pod", "volume", "container"} }

NetworkLineCount(text) ==
  Cardinality({i \in DOMAIN text : text[i] \in NetworkPrefixed})

\* C5: container.generateFileTemplate() fails exactly when the networks list
\* is empty and the pod back-reference is null; with exactly one network
\* attached it succeeds and its text has exactly one `Network=` line.
C5_ContainerGenerate ==
  last.op = "Container.generateFileTemplate" =>
    LET d == ContainerDeps(last.self) IN
      /\ last.threw <=> (Len(d.networks) = 0 /\ d.pod = NULL)
      /\ Len(d.networks) = 1 => (~last.threw /\ NetworkLineCount(last.text) = 1)

\* A container with exactly one network and no pod has been rendered.
C5_Witness ==
  /\ last.op = "Container.generateFileTemplate"
  /\ ~last.threw
  /\ Len(ContainerDeps(last.self).networks) = 1
  /\ ContainerDeps(last.self).pod = NULL
  /\ NetworkLineCount(last.text) = 1

\* C6: after a successful pod.addContainer(c) for a pod with id P,
\* c.generateFileTemplate() succeeds and its text has the line `Pod=P.pod`.
C6_PodLineRendered ==
  ( /\ last.op = "Container.generateFileTemplate"
    /\ containers[last.self].pod # NULL )
  => /\ ~last.threw
     /\ \E i \in DOMAIN last.text :
          last.text[i] = "Pod=" \o containers[last.self].pod.id \o ".pod"

\* C7: container.exposePort(p) fails with the duplicate-port error, naming the
\* container id and the port, when the ports list already holds a mapping with
\* the same external port, and leaves the ports list unchanged.
C7_DuplicatePortRejected ==
  [][ \A c \in CIdx :
        ( /\ last'.op = "Container.exposePort"
          /\ last'.self = c
          /\ \E i \in DOMAIN ContainerDeps(c).ports :
               ContainerDeps(c).ports[i].external = last'.arg.external )
        => /\ last'.threw
           /\ last'.error =
                errorContainerDuplicatePort(containers[c].id, last'.arg.external)
           /\ portHeap'[containers[c].ports] = portHeap[containers[c].ports] ]_vars

\* C8: container.addToNetwork(n) fails with ContainerDuplicateNetwork when a
\* network with the same id is already in the networks list, and leaves the
\* list unchanged.
C8_DuplicateNetworkRejected ==
  [][ \A c \in CIdx :
        ( /\ last'.op = "Container.addToNetwork"
          /\ last'.self = c
          /\ \E i \in DOMAIN ContainerDeps(c).networks :
               ContainerDeps(c).networks[i].id = last'.arg.id )
        => /\ last'.threw
           /\ last'.error =
                errorContainerDuplicateNetwork(containers[c].id, last'.arg.id)
           /\ netHeap'[containers[c].networks] = netHeap[containers[c].networks] ]_vars

\* The mount path a volume was configured with, and its exclusivity label:
\* Z (private), z (shared) or none.
ConfiguredMountPath(v) == (CHOOSE config \in VolumeConfigs : config.id = v.id).mount_path
Label(v) ==
  CASE v.config.permissions \in {"private-readonly", "private-write"} -> "Z"
    [] v.config.permissions \in {"shared-readonly", "shared-write"} -> "z"
    [] OTHER -> ""
MountConflict(v, w) ==
  /\ v.id # w.id
  /\ ConfiguredMountPath(v) = ConfiguredMountPath(w)
  /\ <<Label(w), Label(v)>> \in {<<"Z", "Z">>, <<"Z", "z">>, <<"z", "Z">>}

\* C9: container.addVolume(v) fails with ContainerVolumeMountConflict when an
\* attached volume has the same mount_path and the labels are (Z,Z), (Z,z) or
\* (z,Z), leaving the volumes list unchanged; it succeeds when the volumes at
\* that path are all z.
C9_VolumeMountConflictRejected ==
  [][ \A c \in CIdx :
        ( /\ last'.op = "Container.addVolume"
          /\ last'.self = c )
        => LET v == last'.arg
               attached == ContainerDeps(c).volumes
               clash == {i \in DOMAIN attached : MountConflict(v, attached[i])}
           IN /\ clash # {} =>
                   /\ last'.threw
                   /\ \E i \in clash :
                        last'.error =
                          errorContainerVolumeMountConflict(
                            containers[c].id, v.id, ConfiguredMountPath(v),
                            IF Label(attached[i]) = "Z" THEN "private" ELSE "shared")
                   /\ volHeap'[containers[c].volumes] = volHeap[containers[c].volumes]
              /\ ( /\ Label(v) = "z"
                   /\ \A i \in DOMAIN attached :
                        ( /\ attached[i].id # v.id
                          /\ ConfiguredMountPath(attached[i]) = ConfiguredMountPath(v) )
                          => Label(attached[i]) = "z" )
                 => ~last'.threw ]_vars

\* C10: pod.exposePort(p) fails with PodPortInUse when a container in the
\* pod's containers list already maps the same external port.
C10_PodPortInUseRejected ==
  [][ \A p \in PIdx :
        ( /\ last'.op = "Pod.exposePort"
          /\ last'.self = p )
        => LET members == PodDeps(p).containers
               users == { members[i] : i \in
                            { j \in DOMAIN members :
                                \E k \in DOMAIN ContainerDeps(members[j]).ports :
                                  ContainerDeps(members[j]).ports[k].external
                                    = last'.arg.external } }
           IN users # {} =>
                /\ last'.threw
                /\ \E c \in users :
                     last'.error =
                       errorPodPortInUse(pods[p].id, last'.arg.external, containers[c].id) ]_vars


\* C11: pod.exposePort(p) fails with PodDuplicatePort when the pod's own ports
\* list already holds a mapping with the same external port, and the list is
\* left as it was.
C11_PodDuplicatePortRejected ==
  [][ \A p \in PIdx :
        ( /\ last'.op = "Pod.exposePort"
          /\ last'.self = p
          /\ \E i \in DOMAIN PodDeps(p).ports :
               PodDeps(p).ports[i].external = last'.arg.external )
        => /\ last'.threw
           /\ last'.error = errorPodDuplicatePort(pods[p].id, last'.arg.external)
           /\ portHeap'[pods[p].ports] = portHeap[pods[p].ports] ]_vars


\* The dependency list an attach operation of instance `self` adds to.
AttachOps ==
  { "Container.addToNetwork", "Container.exposePort", "Container.addVolume",
    "Pod.addToNetwork", "Pod.addContainer", "Pod.exposePort", "Pod.addVolume" }

AttachList(op, self) ==
  CASE op = "Container.addToNetwork" -> netHeap[containers[self].networks]
    [] op = "Container.exposePort" -> portHeap[containers[self].ports]
    [] op = "Container.addVolume" -> volHeap[containers[self].volumes]
    [] op = "Pod.addToNetwork" -> netHeap[pods[self].networks]
    [] op = "Pod.addContainer" -> contHeap[pods[self].containers]
    [] op = "Pod.exposePort" -> portHeap[pods[self].ports]
    [] op = "Pod.addVolume" -> volHeap[pods[self].volumes]

Overwrite(o) == o # Undefined /\ o.overwrite

\* C12: an attach operation called with opts.overwrite = true leaves exactly
\* the newly attached item in the dependency list of that kind; called with
\* overwrite false or absent it appends the item to the prior entries.
C12_OverwriteReplacesList ==
  [][ \A op \in AttachOps : \A self \in Addrs :
        ( /\ last'.op = op
          /\ last'.self = self
          /\ ~last'.threw )
        => AttachList(op, self)' =
             IF Overwrite(opts') THEN <<last'.arg>>
                                 ELSE Append(AttachList(op, self), last'.arg) ]_vars


\* The ids that two configs of a list share.
DuplicateIds(configs) ==
  { configs[i].id : i \in { k \in DOMAIN configs :
                              \E j \in DOMAIN configs : j # k /\ configs[j].id = configs[k].id } }

\* C13: registering a list of network configs in which two configs have the
\* same id fails with the duplicate-resource error that names the kind and
\* the id, and no registry is made.
C13_DuplicateIdRejected ==
  [][ ( /\ last'.op = "registerNetworks"
        /\ DuplicateIds(last'.arg) # {} )
      => /\ last'.threw
         /\ \E id \in DuplicateIds(last'.arg) : \E kind \in {"network", "Network"} :
              last'.error = errorDuplicateResource("network", kind, id)
         /\ registry' = registry ]_vars


\* The ids (names, keys) the registry at hand was made from.
RegisteredIds ==
  CASE registry.factory = "registerNetworks" ->
         { registry.networkMap[i].key : i \in DOMAIN registry.networkMap }
    [] registry.factory = "createNetworks" ->
         { registry.networks[i].name : i \in DOMAIN registry.networks }
    [] registry.factory = "networks.createNetworks" ->
         { registry.templates[i].key : i \in DOMAIN registry.templates }
    [] registry.factory = "createVolumes" ->
         { registry.volumes[i].name : i \in DOMAIN registry.volumes }
    [] OTHER -> {}

UseOps == {"registerNetworks.use", "createNetworks.use", "networks.attach", "createVolumes.use"}

\* C14: use(ids) of a registry fails whenever one of the requested ids is not
\* registered, so that no returned list holds a missing entry or a name that
\* was not validated.
C14_UseOfAbsentIdFails ==
  [][ ( /\ last'.op \in UseOps
        /\ \E i \in DOMAIN last'.arg : last'.arg[i] \notin RegisteredIds )
      => last'.threw ]_vars


\* A list in which no element occurs twice.
DuplicateFree(list) == \A i, j \in DOMAIN list : list[i] = list[j] => i = j

\* The resource a registry holds for the config registered under an id.
RegisteredUnder(id) ==
  CASE registry.factory = "registerNetworks" ->
         LET config == CHOOSE c \in { registry.networks[i] : i \in DOMAIN registry.networks } :
                         c.id = id
         IN [type |-> "network", id |-> id, config |-> config]
    [] registry.factory = "networks.createNetworks" ->
         LET entry == CHOOSE e \in { registry.networks[i] : i \in DOMAIN registry.networks } :
                        e.key = id
         IN [ file_name |-> id \o ".network",
              output_dir_local |-> ".config/containers/systemd",
              contents |-> NetworkTemplate(id, entry.value) ]

\* C15: for a registry made from configs with pairwise distinct ids, use(ids)
\* with a duplicate-free list of registered ids returns a list of the same
\* length whose i-th element is the resource registered under ids[i].
C15_UseReturnsInRequestOrder ==
  [][ ( /\ last'.op \in {"registerNetworks.use", "networks.attach"}
        /\ last'.op = "registerNetworks.use" => DuplicateIds(registry.networks) = {}
        /\ DuplicateFree(last'.arg)
        /\ \A i \in DOMAIN last'.arg : last'.arg[i] \in RegisteredIds )
      => /\ ~last'.threw
         /\ Len(last'.result) = Len(last'.arg)
         /\ \A i \in DOMAIN last'.arg : last'.result[i] = RegisteredUnder(last'.arg[i]) ]_vars

\* Two networks are registered and use asks for them in the other order.
C15_Witness ==
  /\ registry.factory = "registerNetworks"
  /\ Len(registry.networks) = 2
  /\ DuplicateIds(registry.networks) = {}
  /\ last.op = "registerNetworks.use"
  /\ last.arg = <<registry.networks[2].id, registry.networks[1].id>>
  /\ ~last.threw
  /\ last.result[1].id = registry.networks[2].id


\* C16: use(ids) of a registry with an id that occurs twice in ids fails; the
\* resource is neither returned twice nor is the request deduplicated.
C16_DuplicateRequestFails ==
  [][ ( /\ last'.op \in UseOps
        /\ \A i \in DOMAIN last'.arg : last'.arg[i] \in RegisteredIds
        /\ ~DuplicateFree(last'.arg) )
      => last'.threw ]_vars


\* The registered volume of a name is a bind mount (host_path set) / a named,
\* podman-managed volume (host_path absent).
IsBindMount(name) ==
  \E j \in DOMAIN registry.volumes :
    registry.volumes[j].name = name /\ "host_path" \in DOMAIN registry.volumes[j]

IsNamedVolume(name) ==
  \E j \in DOMAIN registry.volumes :
    registry.volumes[j].name = name /\ "host_path" \notin DOMAIN registry.volumes[j]

VolumeNamesDistinct ==
  \A i, j \in DOMAIN registry.volumes :
    registry.volumes[i].name = registry.volumes[j].name => i = j

\* C17: getFileTemplates(names) of a volume registry fails whenever names
\* holds the name of a bind mount, never returns a template for a bind mount,
\* and for a requested named volume n returns a template with file_name
\* n.volume.
C17_VolumeFileTemplates ==
  [][ ( /\ last'.op = "createVolumes.getFileTemplates"
        /\ VolumeNamesDistinct )
      => /\ (\E i \in DOMAIN last'.arg : IsBindMount(last'.arg[i])) => last'.threw
         /\ ~last'.threw =>
              /\ \A k \in DOMAIN last'.result :
                   \A j \in DOMAIN registry.volumes :
                     last'.result[k].file_name = registry.volumes[j].name \o ".volume"
                       => ~IsBindMount(registry.volumes[j].name)
              /\ \A i \in DOMAIN last'.arg :
                   IsNamedVolume(last'.arg[i])
                     => \E k \in DOMAIN last'.result :
                          last'.result[k].file_name = last'.arg[i] \o ".volume" ]_vars


\* C18: generateFileTemplate() of a volume made by createVolume returns the
\* empty string for a bind mount (host_path present; a config without
\* host_path holds "") and the [Volume] section text for a named volume.
C18_VolumeGenerateFileTemplate ==
  last.op = "Volume.generateFileTemplate"
    => /\ ~last.threw
       /\ last.text = IF last.arg.host_path # "" THEN <<"">> ELSE <<"[Volume]">>

\* generateFileTemplate() was called on a bind mount and returned "".
C18_Witness ==
  /\ last.op = "Volume.generateFileTemplate"
  /\ last.arg.type = "bind-mount"
  /\ last.arg.host_path = "/etc/cfg"
  /\ last.text = <<"">>


\* C19: the resolved host path of a volume config is host_path when that is
\* present and {id}.volume otherwise; the resolved mount path is mount_path
\* suffixed with :{label} when the config has an SELinux label and mount_path
\* itself otherwise.  Stated for createVolume(config).config() (the label is
\* the Z or z its permissions stand for) and for createVolumes(...).use(names).
C19_ResolvedPaths ==
  /\ last.op = "Volume.config"
       => LET label == Label(createVolume(last.arg))
          IN /\ last.result.host_path =
                  IF last.arg.host_path # "" THEN last.arg.host_path
                                             ELSE last.arg.id \o ".volume"
             /\ last.result.mount_path =
                  IF label # "" THEN last.arg.mount_path \o ":" \o label
                                ELSE last.arg.mount_path
  /\ (last.op = "createVolumes.use" /\ ~last.threw)
       => \A i \in DOMAIN last.arg :
            \E j \in DOMAIN registry.volumes :
              LET config == registry.volumes[j]
              IN /\ config.name = last.arg[i]
                 /\ last.result[i].host_path =
                      IF "host_path" \in DOMAIN config THEN config.host_path
                                                       ELSE config.name \o ".volume"
                 /\ last.result[i].mount_path =
                      IF "selinux_label" \in DOMAIN config
                        THEN config.mount_path \o ":" \o config.selinux_label
                        ELSE config.mount_path


\* The ListenStream line of each port of a list.
ListenStreams(ports) ==
  [i \in DOMAIN ports |-> "ListenStream=[::]" \o NumberToString(ports[i])]

\* The lines that begin with "ListenStream=" among those a socket text of the
\* model can hold.
ListenLines ==
  { ArrayToString(ListenStreams(ports)) :
      ports \in SeqsUpTo({80, 443, 8080}, MaxPorts) \ {<<>>} }

\* C20: the template of a socket with ports p1..pn (n >= 1) and
\* activate_service s holds exactly n lines ListenStream=[::]{pi}, in the
\* order of the ports, the line BindIPv6Only=both, the line
\* Service=s.service and an [Install] section with WantedBy=socket.target;
\* createSocket with an empty ports list is rejected.
C20_SocketTemplate ==
  /\ (last.op = "createSocket" /\ last.arg.ports = <<>>) => last.threw
  /\ (last.op = "Socket.generateFileTemplate" /\ last.arg.ports # <<>>)
       => /\ SelectSeq(last.text, LAMBDA line : line \in ListenLines)
               = ListenStreams(last.arg.ports)
          /\ Includes(last.text, "BindIPv6Only=both")
          /\ Includes(last.text, "Service=" \o last.arg.activate_service \o ".service")
          /\ \E i, j \in DOMAIN last.text :
               /\ i < j
               /\ last.text[i] = "[Install]"
               /\ last.text[j] = "WantedBy=socket.target"


\* The lines that begin with "Pod=" among those a container text of the model
\* can hold.
PodPrefixed == { "Pod=" \o s \o ".pod" : s \in {"web", "db", "[object Object]"} }

\* C21: the text of a container is [Container], ContainerName={id},
\* Image={image}, then the Network= lines in the order of the networks list,
\* then the Pod= line if a pod is set, then the Port= lines, then the Volume=
\* lines, with no line for an empty group and no line of white space at
\* either end, in whatever order the attach operations were called.
C21_ContainerTextOrder ==
  ( /\ last.op = "Container.generateFileTemplate"
    /\ ~last.threw )
  => LET d == ContainerDeps(last.self)
         head == << "[Container]",
                    "ContainerName=" \o containers[last.self].id,
                    "Image=" \o containers[last.self].image >>
         nets == [i \in DOMAIN d.networks |-> "Network=" \o d.networks[i].id \o ".network"]
         ports == [i \in DOMAIN d.ports |->
                     "Port=" \o ToString(d.ports[i].external) \o ":"
                       \o ToString(d.ports[i].internal)]
         vols == [i \in DOMAIN d.volumes |-> "Volume=" \o d.volumes[i].id \o ".volume"]
     IN /\ \E pod \in (IF d.pod = NULL THEN {<<>>} ELSE { <<l>> : l \in PodPrefixed }) :
             last.text = head \o nets \o pod \o ports \o vols
        /\ \A i \in DOMAIN last.text : last.text[i] # ""

\* A container with a network, a port and a volume has been rendered.
C21_Witness ==
  /\ last.op = "Container.generateFileTemplate"
  /\ ~last.threw
  /\ Len(ContainerDeps(last.self).networks) = 1
  /\ Len(ContainerDeps(last.self).ports) = 1
  /\ Len(ContainerDeps(last.self).volumes) = 1
  /\ Len(last.text) = 6


\* C22: the text of a container holds one line Volume={id}.volume for each
\* attached named volume and no line Volume={id}.volume for an attached
\* bind mount.
C22_VolumeLinesForNamedOnly ==
  ( /\ last.op = "Container.generateFileTemplate"
    /\ ~last.threw )
  => LET volumes == ContainerDeps(last.self).volumes
         Lines(id) == { i \in DOMAIN last.text : last.text[i] = "Volume=" \o id \o ".volume" }
     IN \A k \in DOMAIN volumes :
          IF volumes[k].config.type = "named"
            THEN Cardinality(Lines(volumes[k].id))
                   = Cardinality({ j \in DOMAIN volumes : volumes[j].id = volumes[k].id })
            ELSE Lines(volumes[k].id) = {}


\* C23: each instance owns its dependency lists: an attach operation on
\* instance A leaves every dependency list of every other instance B as it
\* was, and B's pod back-reference too unless the operation is
\* pod.addContainer(B).
C23_ListsOwnedExclusively ==
  [][ \A op \in AttachOps : \A A \in Addrs :
        ( /\ last'.op = op
          /\ last'.self = A )
        => /\ \A B \in Created(containers) \ {A} :
                /\ netHeap'[containers[B].networks] = netHeap[containers[B].networks]
                /\ portHeap'[containers[B].ports] = portHeap[containers[B].ports]
                /\ volHeap'[containers[B].volumes] = volHeap[containers[B].volumes]
                /\ (op = "Pod.addContainer" /\ last'.arg = B)
                     \/ containers'[B].pod = containers[B].pod
           /\ \A B \in Created(pods) \ {A} :
                /\ netHeap'[pods[B].networks] = netHeap[pods[B].networks]
                /\ contHeap'[pods[B].containers] = contHeap[pods[B].containers]
                /\ portHeap'[pods[B].ports] = portHeap[pods[B].ports]
                /\ volHeap'[pods[B].volumes] = volHeap[pods[B].volumes] ]_vars


\* The ids of the builders a failed call is about: the builder it was made
\* on and, for pod.addContainer, the container handed over.
OffendingIds ==
  CASE last.op \in {"Container.addToNetwork", "Container.generateFileTemplate"} ->
         {containers[last.self].id}
    [] last.op = "Pod.addContainer" -> {pods[last.self].id, containers[last.arg].id}
    [] last.op = "Pod.generateFileTemplate" -> {pods[last.self].id}
    [] OTHER -> {}

\* The errors with a code of errors.ts and a message that names the id: the
\* messages of the builders' failures under any code, and the errors of the
\* constructor errors.ts has for a container in a pod.
CodedErrorsNaming(id) ==
  { createError(code, message) :
      code \in ErrorCodes,
      message \in { "Container " \o id \o " must have either networks or pod attached",
                    "Pod " \o id \o " must have at least 1 network and 1 container attached" } }
    \cup { errorContainerNetworkInPod(id, podId, networkId) :
             podId \in {"web", "db"}, networkId \in {"app", "db"} }
    \cup { errorContainerNetworkInPod(containerId, id, networkId) :
             containerId \in {"caddy", "app"}, networkId \in {"app", "db"} }

\* C24: every failure of a builder operation is an error that carries a
\* machine-readable code, as createError builds it, and a message that names
\* an offending resource id.
C24_FailuresCarryCodeAndId ==
  last.threw => \E id \in OffendingIds : last.error \in CodedErrorsNaming(id)


\* The identifiers a registry was given, and the extension of its artifacts.
ArtifactIds ==
  CASE registry.factory = "createNetworks" ->
         { registry.networks[i].name : i \in DOMAIN registry.networks }
    [] registry.factory = "networks.createNetworks" ->
         { registry.networks[i].key : i \in DOMAIN registry.networks }
    [] registry.factory = "createVolumes" ->
         { registry.volumes[i].name :
             i \in { j \in DOMAIN registry.volumes :
                       ~TruthyField(registry.volumes[j], "host_path") } }
    [] OTHER -> {}

ArtifactExtension ==
  IF registry.factory = "createVolumes" THEN ".volume" ELSE ".network"

\* The file artifacts a registry holds.
Artifacts ==
  CASE registry.factory \in {"createNetworks", "createVolumes"} ->
         { registry.templates[i] : i \in DOMAIN registry.templates }
    [] registry.factory = "networks.createNetworks" ->
         { registry.templates[i].value : i \in DOMAIN registry.templates }
    [] OTHER -> {}

\* An artifact is the one of identifier n.
ArtifactOf(t, n) ==
  /\ t.file_name = n \o ArtifactExtension
  /\ t.output_dir_local = ".config/containers/systemd"

\* C25: every file artifact made for a network or a podman-managed volume of
\* identifier n has the file name n.network / n.volume and the output
\* directory .config/containers/systemd: each identifier has its artifact,
\* each artifact held or handed out is the one of an identifier.
C25_ArtifactNameAndDirectory ==
  /\ \A n \in ArtifactIds : \E t \in Artifacts : ArtifactOf(t, n)
  /\ \A t \in Artifacts : \E n \in ArtifactIds : ArtifactOf(t, n)
  /\ ( /\ last.op \in {"createNetworks.getFileTemplates",
                       "createVolumes.getFileTemplates"}
       /\ ~last.threw )
       => \A i \in DOMAIN last.result :
            \E n \in ArtifactIds : ArtifactOf(last.result[i], n)
  /\ ( last.op = "networks.attach" /\ ~last.threw )
       => \A i \in DOMAIN last.result :
            \E n \in ArtifactIds : ArtifactOf(last.result[i], n)

C25_Witness ==
  /\ registry.factory = "createNetworks"
  /\ Len(registry.templates) = 2
  /\ last.op = "createNetworks.getFileTemplates"
  /\ ~last.threw
  /\ Len(last.result) = 2
  /\ \E i \in DOMAIN last.result : last.result[i].file_name = "app.v2.network"


\* The dependency state of the builder whose getDependencies() was called.
BuilderDependencies ==
  IF held.builder = "container" THEN ContainerDeps(held.self) ELSE PodDeps(held.self)

\* C26: the value getDependencies() returned is a snapshot: a later attach
\* operation on a builder does not change what the caller reads from it, and
\* a change the caller makes to it does not change the builder's dependency
\* state.
C26_GetDependenciesSnapshot ==
  [][ ( held # NoHeld /\ held' = held )
        => /\ last'.op \in AttachOps => HeldValue' = HeldValue
           /\ last'.op = "dependencies.networks.push"
                => BuilderDependencies' = BuilderDependencies ]_vars



\* The pods made so far have pairwise distinct ids.
PodIdsDistinct ==
  \A p, q \in Created(pods) : p # q => pods[p].id # pods[q].id

\* Container c is an element of the containers list of pod p.
InPod(c, p) ==
  \E i \in DOMAIN contHeap[pods[p].containers] : contHeap[pods[p].containers][i] = c

\* C27: with pods of pairwise distinct ids, a container is in a pod's
\* containers list exactly if its pod back-reference has that pod's id; so no
\* container is in the lists of two pods, and none is twice in one list.
C27_MembershipMatchesBackReference ==
  PodIdsDistinct =>
    /\ \A p \in Created(pods) : \A c \in Created(containers) :
         InPod(c, p) <=> ( /\ containers[c].pod # NULL
                           /\ containers[c].pod.id = pods[p].id )
    /\ \A p \in Created(pods) : DuplicateFree(contHeap[pods[p].containers])


\* C28: getFileTemplates(names) of a registry made by createNetworks returns
\* exactly the templates of the registered networks whose name is one of
\* names, for every name, a name that contains a "." included.
C28_NetworkFileTemplatesByName ==
  ( /\ last.op = "createNetworks.getFileTemplates"
    /\ ~last.threw )
    => last.result =
         SelectSeq(registry.templates,
                   LAMBDA t : \E i \in DOMAIN last.arg :
                                t.file_name = last.arg[i] \o ".network")


GenerateOps == {"Container.generateFileTemplate", "Pod.generateFileTemplate"}

\* C29: generateFileTemplate() of a container or a pod, whether it returns or
\* throws, leaves every builder's dependency lists and pod back-reference as
\* they were, and a call that follows another on the same builder with no
\* attach in between ends as that one did.
C29_GenerateLeavesDependencies ==
  [][ last'.op \in GenerateOps
        => /\ \A c \in Created(containers) : ContainerDeps(c)' = ContainerDeps(c)
           /\ \A p \in Created(pods) : PodDeps(p)' = PodDeps(p)
           /\ ( last.op = last'.op /\ last.self = last'.self ) => last' = last ]_vars

C29_Witness ==
  /\ last.op = "Container.generateFileTemplate"
  /\ ~last.threw
  /\ containers[last.self].pod # NULL
  /\ Len(ContainerDeps(last.self).ports) >= 1


\* C30: withContext(ctx, key, value) returns a new context in which key maps
\* to value and every other key maps as in ctx, and ctx maps every key as
\* before the call; getContext of a key the context was never given returns
\* undefined.
C30_WithContextIsPersistent ==
  [][ /\ last'.op = "withContext"
        => /\ last'.result \notin DOMAIN contexts
           /\ MapGet(contexts'[last'.result], last'.arg.key) = last'.arg.value
           /\ \A key \in Symbols \ {last'.arg.key} :
                MapGet(contexts'[last'.result], key)
                  = MapGet(contexts[last'.arg.context], key)
           /\ \A key \in Symbols :
                MapGet(contexts'[last'.arg.context], key)
                  = MapGet(contexts[last'.arg.context], key)
      /\ ( /\ last'.op = "getContext"
           /\ ~HasKey(contexts[last'.arg.context], last'.arg.key) )
        => last'.result = Undefined ]_vars

C30_Witness ==
  /\ last.op = "withContext"
  /\ HasKey(contexts[last.arg.context], last.arg.key)
  /\ MapGet(contexts[last.arg.context], last.arg.key) # last.arg.value
  /\ Len(contexts[last.arg.context]) = 2
  /\ Len(contexts[last.result]) = 2

====
